---- MODULE Spec2Model ----
(***************************************************************************)
(* Model of src/chunk.py: the RIFF/WAVE chunk decoders.                    *)
(*                                                                         *)
(* A byte buffer is a sequence of numbers 0..255; Python positions are     *)
(* 0-based, so Python's b[i:j] is Slice(b, i, j).  A decoded text is the   *)
(* sequence of its code points.  A chunk object is the record `self`; a    *)
(* call of parse runs one statement of the method per step, `pc` being the *)
(* position in the method's statement list.                                *)
(***************************************************************************)
EXTENDS Integers, Sequences, FiniteSets, TLC

VARIABLES
    cls,              \* the class of the chunk object
    self,             \* the chunk object's attributes
    byte_seq,         \* parse's argument byte_seq
    chunk_start_pos,  \* parse's argument chunk_start_pos
    start_pos,        \* parse's local cursor start_pos
    pc,               \* "new", "run", "done", "raised"; "call", "returned"
    ip,               \* the statement of parse to run next
    call,             \* arguments of a direct get_bytes call
    ret               \* what that call returned

vars == <<cls, self, byte_seq, chunk_start_pos, start_pos, pc, ip, call, ret>>

\* ------------------------------------------------------------------ bounds

\* Largest chunk offset, and largest number of bytes put before a chunk.
MaxPad == 1

\* Largest buffer length, start and length of a direct get_bytes call.
MaxArg == 4

\* ------------------------------------------------------- bytes and slices

Min(a, b) == IF a < b THEN a ELSE b

\* Python's b[i:j] for 0 <= i, 0 <= j: both ends are clamped to len(b).
Slice(b, i, j) == SubSeq(b, Min(i, Len(b)) + 1, Min(j, Len(b)))

RECURSIVE Pow256(_)
Pow256(n) == IF n = 0 THEN 1 ELSE 256 * Pow256(n - 1)

RECURSIVE FromLittle(_)
FromLittle(bs) ==
    IF bs = <<>> THEN 0 ELSE bs[1] + 256 * FromLittle(Tail(bs))

RECURSIVE FromBig(_)
FromBig(bs) ==
    IF bs = <<>> THEN 0
    ELSE bs[1] * Pow256(Len(bs) - 1) + FromBig(Tail(bs))

\* int.from_bytes(bs, byteorder, signed)
int_from_bytes(bs, byte_order, signed) ==
    LET u == IF byte_order = "little" THEN FromLittle(bs) ELSE FromBig(bs)
    IN  IF signed /\ bs # <<>> /\ 2 * u >= Pow256(Len(bs))
        THEN u - Pow256(Len(bs))
        ELSE u

\* ------------------------------------------------------------ UTF-8 text

\* Number of bytes of the UTF-8 sequence a lead byte starts, 0 for a byte
\* that starts none.
Utf8Width(b0) ==
    IF b0 < 128 THEN 1
    ELSE IF b0 \in 194..223 THEN 2
    ELSE IF b0 \in 224..239 THEN 3
    ELSE IF b0 \in 240..244 THEN 4
    ELSE 0

\* The values the second byte of a sequence may take.
Utf8Second(b0) ==
    IF b0 = 224 THEN 160..191
    ELSE IF b0 = 237 THEN 128..159
    ELSE IF b0 = 240 THEN 144..191
    ELSE IF b0 = 244 THEN 128..143
    ELSE 128..191

Utf8Head(bs) ==
    LET n == Utf8Width(bs[1])
    IN  /\ n > 0
        /\ Len(bs) >= n
        /\ n >= 2 => bs[2] \in Utf8Second(bs[1])
        /\ \A k \in 3..n : bs[k] \in 128..191

Utf8CodePoint(bs) ==
    LET n == Utf8Width(bs[1])
    IN  IF n = 1 THEN bs[1]
        ELSE IF n = 2 THEN (bs[1] % 32) * 64 + (bs[2] % 64)
        ELSE IF n = 3 THEN (bs[1] % 16) * 4096 + (bs[2] % 64) * 64 + (bs[3] % 64)
        ELSE (bs[1] % 8) * 262144 + (bs[2] % 64) * 4096
             + (bs[3] % 64) * 64 + (bs[4] % 64)

\* bytes.decode("utf-8"): [ok |-> FALSE] stands for UnicodeDecodeError.
RECURSIVE decode_utf8(_)
decode_utf8(bs) ==
    IF bs = <<>> THEN [ok |-> TRUE, str |-> <<>>]
    ELSE IF ~Utf8Head(bs) THEN [ok |-> FALSE, str |-> <<>>]
    ELSE LET rest == decode_utf8(SubSeq(bs, Utf8Width(bs[1]) + 1, Len(bs)))
         IN  [ok |-> rest.ok,
              str |-> IF rest.ok THEN <<Utf8CodePoint(bs)>> \o rest.str ELSE <<>>]

\* The literals of the source, as code points.
RIFF == <<82, 73, 70, 70>>
WAVE == <<87, 65, 86, 69>>
FMT  == <<102, 109, 116, 32>>
DATA == <<100, 97, 116, 97>>
BEXT == <<98, 101, 120, 116>>
FACT == <<102, 97, 99, 116>>

\* --------------------------------------------------------------- ChunkType

ChunkType ==
    {"UNKNOWN", "RIFF", "STANDARD_FMT", "NON_STANDARD_FMT", "EXTENSIBLE_FMT",
     "DATA", "BEXT"}

\* What a Python function returns when it ends without a return statement.
None == "None"

\* ----------------------------------------------------- BaseChunk's statics

\* get_chunk_name without its bounds check.
get_chunk_name_unchecked(b, pos) == decode_utf8(Slice(b, pos, pos + 4))

\* get_chunk_name: [ok |-> FALSE] when the decode raises.
get_chunk_name(b, pos) ==
    IF pos + 4 > Len(b) THEN [ok |-> TRUE, str |-> <<>>]
    ELSE decode_utf8(Slice(b, pos, pos + 4))

\* parse_int: the slice ends at `length`, an absolute position.
parse_int(b, pos, length, byte_order, signed) ==
    int_from_bytes(Slice(b, pos, length), byte_order, signed)

\* get_chunk_size with >= for > in its bounds check.
get_chunk_size_off_by_one(b, pos) ==
    IF pos + 8 >= Len(b) THEN -1
    ELSE parse_int(b, pos + 4, pos + 8, "little", FALSE)

get_chunk_size(b, pos) ==
    IF pos + 8 > Len(b) THEN -1
    ELSE parse_int(b, pos + 4, pos + 8, "little", FALSE)

\* get_chunk_type, for a name that decodes (parse reads the name first).
get_chunk_type(b, pos) ==
    IF pos + 4 > Len(b) THEN "UNKNOWN"
    ELSE LET chunk_name == get_chunk_name(b, pos).str
             chunk_size == get_chunk_size(b, pos)
         IN  IF chunk_name = RIFF THEN "RIFF"
             ELSE IF chunk_name = FMT THEN
                  IF chunk_size = 16 THEN "STANDARD_FMT"
                  ELSE IF chunk_size = 18 THEN "NON_STANDARD_FMT"
                  ELSE IF chunk_size = 40 THEN "EXTENSIBLE_FMT"
                  ELSE "UNKNOWN"
             ELSE IF chunk_name = DATA THEN "DATA"
             ELSE IF chunk_name = BEXT THEN "BEXT"
             ELSE None

\* bytes.find(b"\0", start, end): the first 0-based position of a zero
\* byte in [start, end), or -1.
find_nul(b, start, end) ==
    LET hits == {k \in start..(Min(end, Len(b)) - 1) : b[k + 1] = 0}
    IN  IF hits = {} THEN -1
        ELSE CHOOSE k \in hits : \A h \in hits : k <= h

parse_str(b, pos, end_pos) ==
    LET e0 == IF end_pos = -1 THEN Len(b) ELSE end_pos
        f == find_nul(b, pos, e0)
        end_flag_idx == IF f = -1 THEN e0 ELSE f
        d == decode_utf8(Slice(b, pos, end_flag_idx))
    IN  IF pos >= end_flag_idx THEN <<>>
        ELSE IF d.ok THEN d.str ELSE <<>>

\* get_bytes that returns what Python's slice gives out of bounds.
get_bytes_partial(obj, byte_data, pos, length, valid_check) ==
    [self |-> IF pos + length > Len(byte_data)
              THEN [obj EXCEPT !.valid = (~valid_check) /\ obj.valid]
              ELSE obj,
     bytes |-> Slice(byte_data, pos, pos + length), pos |-> pos + length]

\* get_bytes with `or` for `and`.
get_bytes_or(obj, byte_data, pos, length, valid_check) ==
    IF pos + length > Len(byte_data)
    THEN [self |-> [obj EXCEPT !.valid = (~valid_check) \/ obj.valid],
          bytes |-> <<>>, pos |-> pos + length]
    ELSE [self |-> obj,
          bytes |-> Slice(byte_data, pos, pos + length), pos |-> pos + length]

\* get_bytes that ignores valid_check.
get_bytes_always_required(obj, byte_data, pos, length, valid_check) ==
    IF pos + length > Len(byte_data)
    THEN [self |-> [obj EXCEPT !.valid = FALSE],
          bytes |-> <<>>, pos |-> pos + length]
    ELSE [self |-> obj,
          bytes |-> Slice(byte_data, pos, pos + length), pos |-> pos + length]

\* get_bytes that leaves the cursor where it was when the read fails.
get_bytes_no_advance(obj, byte_data, pos, length, valid_check) ==
    IF pos + length > Len(byte_data)
    THEN [self |-> [obj EXCEPT !.valid = (~valid_check) /\ obj.valid],
          bytes |-> <<>>, pos |-> pos]
    ELSE [self |-> obj,
          bytes |-> Slice(byte_data, pos, pos + length), pos |-> pos + length]

\* get_bytes: the object after the call, the bytes and the cursor returned.
get_bytes(obj, byte_data, pos, length, valid_check) ==
    IF pos + length > Len(byte_data)
    THEN [self |-> [obj EXCEPT !.valid = (~valid_check) /\ obj.valid],
          bytes |-> <<>>, pos |-> pos + length]
    ELSE [self |-> obj,
          bytes |-> Slice(byte_data, pos, pos + length), pos |-> pos + length]

\* _get_format_tag
_get_format_tag(byte_data) ==
    LET format_tag_int == parse_int(byte_data, 0, 2, "little", FALSE)
    IN  IF format_tag_int = 1 THEN "PCM"
        ELSE IF format_tag_int = 3 THEN "IEEE_FLOAT"
        ELSE IF format_tag_int = 6 THEN "ALAW"
        ELSE IF format_tag_int = 7 THEN "MULAW"
        ELSE IF format_tag_int = 65534 THEN "EXTENSIBLE"
        ELSE "UNKNOWN"

\* The integer properties (channels, sample_rate, version, loudness_value,
\* ...): parse_int(self._field, length=n).
int_property(obj, field, n) == parse_int(obj.fields[field], 0, n, "little", FALSE)

\* ----------------------------------------------------------- the classes

Classes ==
    {"BaseChunk", "RiffChunk", "StandardPCMFormatChunk", "NonPCMFormatChunk",
     "ExtensibleFormatChunk", "DataChunk", "FactChunk", "BextChunk"}

CHUNK_TYPE_MAP ==
    [t \in ChunkType |->
        CASE t = "UNKNOWN" -> "BaseChunk"
          [] t = "RIFF" -> "RiffChunk"
          [] t = "STANDARD_FMT" -> "StandardPCMFormatChunk"
          [] t = "NON_STANDARD_FMT" -> "NonPCMFormatChunk"
          [] t = "EXTENSIBLE_FMT" -> "ExtensibleFormatChunk"
          [] t = "DATA" -> "DataChunk"
          [] t = "BEXT" -> "BextChunk"]

BaseFormatFields ==
    <<"_channels", "_sample_rate", "_byte_rate", "_block_align", "_bits_per_sample">>

ExtensibleFields ==
    <<"_extension_size", "_valid_bits_per_sample", "_channel_mask", "sub_format">>

BextFields ==
    <<"_description", "_originator", "_originator_reference", "_originator_date",
      "_originator_time", "_align", "_time_reference_low", "_time_reference_high",
      "_version", "umid", "_loudness_value", "_loudness_range",
      "_max_true_peak_level", "_max_momentary_loudness",
      "_max_short_term_loudness", "reserved">>

Range(s) == {s[i] : i \in DOMAIN s}

\* The bytes attributes each __init__ sets to b"".
FieldsOf(c) ==
    CASE c = "StandardPCMFormatChunk" -> Range(BaseFormatFields)
      [] c = "NonPCMFormatChunk" -> Range(BaseFormatFields) \cup {"_extension_size"}
      [] c = "ExtensibleFormatChunk" -> Range(BaseFormatFields) \cup Range(ExtensibleFields)
      [] c = "DataChunk" -> {"data"}
      [] c = "FactChunk" -> {"_sample_length"}
      [] c = "BextChunk" -> Range(BextFields)
      [] OTHER -> {}

\* The object each __init__ leaves (wave_symbol is RiffChunk's attribute and
\* format_tag the format chunks'; the other classes never touch them).
New(c) ==
    [chunk_name |-> <<>>, chunk_type |-> "UNKNOWN", chunk_size |-> 0,
     valid |-> FALSE, wave_symbol |-> <<>>, format_tag |-> "UNKNOWN",
     fields |-> [f \in FieldsOf(c) |-> <<>>]]

\* ------------------------------------------- the statements of each parse

\* One statement of a parse method, after the call of BaseChunk.parse:
\*   check_name, check_type, check_size   if self.x != expected: valid = False
\*   seek            start_pos = chunk_start_pos + num
\*   get_bytes       self.field, start_pos = self.get_bytes(byte_seq, start_pos, length)
\*   get_bytes_at    self.field, _ = self.get_bytes(byte_seq, chunk_start_pos + num, length)
\*   get_data        self.data, _ = self.get_bytes(byte_seq, chunk_start_pos + num, self.chunk_size)
\*   wave_symbol     RiffChunk.parse's last four lines
\*   format_tag      BaseFormatChunk.parse's read of the format tag
Stmt(op, name, type, field, num, length, valid_check) ==
    [op |-> op, name |-> name, type |-> type, field |-> field, num |-> num,
     length |-> length, valid_check |-> valid_check]

CheckName(n) == Stmt("check_name", n, "", "", 0, 0, TRUE)
CheckType(t) == Stmt("check_type", <<>>, t, "", 0, 0, TRUE)
CheckSize(n) == Stmt("check_size", <<>>, "", "", n, 0, TRUE)
Seek(n) == Stmt("seek", <<>>, "", "", n, 0, TRUE)
GetBytes(f, n, vc) == Stmt("get_bytes", <<>>, "", f, 0, n, vc)
GetBytesAt(f, at, n) == Stmt("get_bytes_at", <<>>, "", f, at, n, TRUE)

RiffChunk_parse ==
    <<CheckName(RIFF), CheckType("RIFF"), CheckSize(4),
      Stmt("wave_symbol", WAVE, "", "", 8, 4, TRUE)>>

BaseFormatChunk_parse ==
    <<CheckName(FMT), Seek(8),
      Stmt("format_tag", <<>>, "", "", 0, 2, TRUE),
      GetBytes("_channels", 2, TRUE),
      GetBytes("_sample_rate", 4, TRUE),
      GetBytes("_byte_rate", 4, TRUE),
      GetBytes("_block_align", 2, TRUE),
      GetBytes("_bits_per_sample", 2, TRUE)>>

StandardPCMFormatChunk_parse ==
    BaseFormatChunk_parse \o <<CheckType("STANDARD_FMT"), CheckSize(16)>>

NonPCMFormatChunk_parse ==
    BaseFormatChunk_parse
    \o <<CheckType("NON_STANDARD_FMT"), CheckSize(18),
         GetBytesAt("_extension_size", 24, 2)>>

ExtensibleFormatChunk_parse ==
    BaseFormatChunk_parse
    \o <<CheckType("EXTENSIBLE_FMT"), CheckSize(40), Seek(24),
         GetBytes("_extension_size", 2, TRUE),
         GetBytes("_valid_bits_per_sample", 2, TRUE),
         GetBytes("_channel_mask", 4, TRUE),
         GetBytes("sub_format", 16, TRUE)>>

DataChunk_parse ==
    <<CheckName(DATA), CheckType("DATA"),
      Stmt("get_data", <<>>, "", "data", 8, 0, TRUE)>>

FactChunk_parse ==
    <<CheckName(FACT), CheckType("UNKNOWN"), CheckSize(4),
      GetBytesAt("_sample_length", 8, 4)>>

BextChunk_parse ==
    <<CheckName(BEXT), CheckType("BEXT"), Seek(8),
      GetBytes("_description", 256, TRUE),
      GetBytes("_originator", 32, TRUE),
      GetBytes("_originator_reference", 32, TRUE),
      GetBytes("_originator_date", 10, TRUE),
      GetBytes("_originator_time", 8, TRUE),
      GetBytes("_align", 2, TRUE),
      GetBytes("_time_reference_low", 4, TRUE),
      GetBytes("_time_reference_high", 4, TRUE),
      GetBytes("_version", 1, FALSE),
      GetBytes("umid", 64, FALSE),
      GetBytes("_loudness_value", 2, FALSE),
      GetBytes("_loudness_range", 2, FALSE),
      GetBytes("_max_true_peak_level", 2, FALSE),
      GetBytes("_max_momentary_loudness", 2, FALSE),
      GetBytes("_max_short_term_loudness", 2, FALSE),
      GetBytes("reserved", 180, FALSE)>>

\* The statements of cls.parse after super().parse of BaseChunk.
ParseOf(c) ==
    CASE c = "RiffChunk" -> RiffChunk_parse
      [] c = "StandardPCMFormatChunk" -> StandardPCMFormatChunk_parse
      [] c = "NonPCMFormatChunk" -> NonPCMFormatChunk_parse
      [] c = "ExtensibleFormatChunk" -> ExtensibleFormatChunk_parse
      [] c = "DataChunk" -> DataChunk_parse
      [] c = "FactChunk" -> FactChunk_parse
      [] c = "BextChunk" -> BextChunk_parse
      [] OTHER -> <<>>

\* BaseChunk.parse: the three header attributes.  The name is read first,
\* so a name that does not decode leaves the object as it was.
BaseChunk_parse(obj, b, pos) ==
    IF ~get_chunk_name(b, pos).ok
    THEN [raised |-> TRUE, self |-> obj]
    ELSE [raised |-> FALSE,
          self |-> [obj EXCEPT !.chunk_name = get_chunk_name(b, pos).str,
                               !.chunk_type = get_chunk_type(b, pos),
                               !.chunk_size = get_chunk_size(b, pos)]]

\* The check written as an assignment: self.valid = (attribute == expected).
check_assigns(obj, st) ==
    LET differs ==
            CASE st.op = "check_name" -> obj.chunk_name # st.name
              [] st.op = "check_type" -> obj.chunk_type # st.type
              [] st.op = "check_size" -> obj.chunk_size # st.num
    IN  [obj EXCEPT !.valid = ~differs]

\* if self.<attribute> != expected: self.valid = False
check(obj, st) ==
    LET differs ==
            CASE st.op = "check_name" -> obj.chunk_name # st.name
              [] st.op = "check_type" -> obj.chunk_type # st.type
              [] st.op = "check_size" -> obj.chunk_size # st.num
    IN  IF differs THEN [obj EXCEPT !.valid = FALSE] ELSE obj

\* One statement: the object and the cursor after it.
Exec(obj, cur, st, b, pos) ==
    CASE st.op \in {"check_name", "check_type", "check_size"} ->
            [self |-> check(obj, st), start_pos |-> cur]
      [] st.op = "seek" ->
            [self |-> obj, start_pos |-> pos + st.num]
      [] st.op = "get_bytes" ->
            LET r == get_bytes(obj, b, cur, st.length, st.valid_check)
            IN  [self |-> [r.self EXCEPT !.fields[st.field] = r.bytes],
                 start_pos |-> r.pos]
      [] st.op = "get_bytes_at" ->
            LET r == get_bytes(obj, b, pos + st.num, st.length, st.valid_check)
            IN  [self |-> [r.self EXCEPT !.fields[st.field] = r.bytes],
                 start_pos |-> cur]
      [] st.op = "get_data" ->
            LET r == get_bytes(obj, b, pos + st.num, obj.chunk_size, st.valid_check)
            IN  [self |-> [r.self EXCEPT !.fields[st.field] = r.bytes],
                 start_pos |-> cur]
      [] st.op = "wave_symbol" ->
            LET r == get_bytes(obj, b, pos + st.num, st.length, st.valid_check)
                w == parse_str(r.bytes, 0, -1)
            IN  [self |-> [r.self EXCEPT !.wave_symbol = w,
                                         !.valid = IF w # st.name THEN FALSE ELSE @],
                 start_pos |-> cur]
      [] st.op = "format_tag" ->
            LET r == get_bytes(obj, b, cur, st.length, st.valid_check)
            IN  [self |-> [r.self EXCEPT !.format_tag = _get_format_tag(r.bytes)],
                 start_pos |-> r.pos]

\* A whole call of parse on an object: the statements from the i-th on.
RECURSIVE RunFrom(_, _, _, _, _, _)
RunFrom(obj, cur, prog, i, b, pos) ==
    IF i > Len(prog) THEN obj
    ELSE LET r == Exec(obj, cur, prog[i], b, pos)
         IN  RunFrom(r.self, r.start_pos, prog, i + 1, b, pos)

\* c.parse(b, pos) on the object obj.
parse(c, obj, b, pos) ==
    LET h == BaseChunk_parse(obj, b, pos)
    IN  IF h.raised THEN h
        ELSE [raised |-> FALSE, self |-> RunFrom(h.self, 0, ParseOf(c), 1, b, pos)]

\* ------------------------------------------------------------ the inputs

LE32(n) ==
    <<n % 256, (n \div 256) % 256, (n \div 65536) % 256, (n \div 16777216) % 256>>

\* n bytes, none zero, that differ from place to place.
Ramp(n) == [i \in 1..n |-> (i % 250) + 1]

Pad(n) == [i \in 1..n |-> 32]

\* A 16-byte format body: format tag, 2 channels, 44100 Hz, 176400 bytes/s,
\* block align 4, 16 bits.
FormatBody(tag) == LE32(tag + 65536 * 2) \o LE32(44100) \o LE32(176400) \o LE32(4 + 65536 * 16)

Chunks ==
    <<RIFF \o LE32(4) \o WAVE,
      RIFF \o LE32(4) \o <<87, 65, 86, 88>>,
      RIFF \o LE32(4) \o <<87, 65, 0, 69>>,
      RIFF \o LE32(36) \o WAVE,
      FMT \o LE32(16) \o FormatBody(1),
      FMT \o LE32(18) \o FormatBody(3) \o <<0, 0>>,
      FMT \o LE32(40) \o FormatBody(65534) \o <<22, 0, 16, 0>> \o LE32(3) \o Ramp(16),
      FMT \o LE32(272) \o FormatBody(1),
      DATA \o LE32(10) \o Ramp(10),
      DATA \o LE32(0),
      FACT \o LE32(4) \o Ramp(4),
      BEXT \o LE32(603) \o Ramp(603),
      <<255, 255, 255, 255>> \o LE32(4) \o WAVE,
      <<195, 169, 97, 98>> \o LE32(4) \o Ramp(4),
      <<74, 85, 78, 75>> \o LE32(4) \o Ramp(4)>>

\* Where the long chunk is cut: around the ends of its fields.
LongCuts ==
    {0, 3, 4, 7, 8, 263, 264, 296, 355, 356, 357, 420, 421, 422, 423, 430,
     431, 610, 611}

\* The lengths a chunk is truncated to.
Cuts(c) == IF Len(c) <= 48 THEN 0..Len(c) ELSE LongCuts

Buffers ==
    UNION {{Pad(p) \o SubSeq(Chunks[k], 1, n) : p \in 0..MaxPad, n \in Cuts(Chunks[k])} :
              k \in DOMAIN Chunks}

Offsets == 0..MaxPad

\* Python's integers are unbounded and TLC's are 32 bits wide: the inputs
\* are the buffers and offsets whose size field, when there is one, has a
\* top byte below 127, so that no sum of the model leaves TLC's range.  The
\* code compares the size with 4, 16, 18 and 40 and adds it to a position;
\* nothing in it depends on that threshold.
Inputs ==
    {in \in Buffers \X Offsets :
        in[2] + 8 > Len(in[1]) \/ in[1][in[2] + 8] < 127}

\* The buffers of a second call of parse on an object: the whole chunks
\* and their headers.
AgainBuffers ==
    {Chunks[k] : k \in DOMAIN Chunks}
    \cup {SubSeq(Chunks[k], 1, 8) : k \in DOMAIN Chunks}

\* The buffers of a direct call of get_bytes.
ArgBuffers == {Ramp(n) : n \in 0..MaxArg}

NoCall ==
    [self |-> New("BaseChunk"), byte_data |-> <<>>, start_pos |-> 0,
     length |-> 0, valid_check |-> TRUE]

NoRet == [bytes |-> <<>>, pos |-> 0]

\* ------------------------------------------------------------- the actions

\* An object of one of the classes, as its __init__ leaves it.
Init ==
    /\ cls \in Classes
    /\ self = New(cls)
    /\ byte_seq = <<>>
    /\ chunk_start_pos = 0
    /\ start_pos = 0
    /\ pc = "new"
    /\ ip = 0
    /\ call = NoCall
    /\ ret = NoRet

\* obj.parse(b, pos) is called: BaseChunk.parse runs, or raises.
Enter(b, pos) ==
    LET h == BaseChunk_parse(self, b, pos)
    IN  /\ byte_seq' = b
        /\ chunk_start_pos' = pos
        /\ start_pos' = 0
        /\ self' = h.self
        /\ pc' = IF h.raised THEN "raised" ELSE "run"
        /\ ip' = IF h.raised THEN 0 ELSE 1
        /\ UNCHANGED <<cls, call, ret>>

\* The first call of parse on a new object.
Call ==
    /\ pc = "new"
    /\ \E in \in Inputs : Enter(in[1], in[2])

\* A later call of parse on the same object.
CallAgain ==
    /\ pc \in {"new", "done", "raised"}
    /\ \E b \in AgainBuffers : Enter(b, 0)

\* The next statement of parse is one of ops.
At(ops) ==
    /\ pc = "run"
    /\ ip \in DOMAIN ParseOf(cls)
    /\ ParseOf(cls)[ip].op \in ops

\* The next statement of parse runs.
Advance ==
    /\ LET r == Exec(self, start_pos, ParseOf(cls)[ip], byte_seq, chunk_start_pos)
       IN  /\ self' = r.self
           /\ start_pos' = r.start_pos
    /\ ip' = ip + 1
    /\ UNCHANGED <<cls, byte_seq, chunk_start_pos, pc, call, ret>>

Check ==
    /\ At({"check_name", "check_type", "check_size"})
    /\ Advance

SetCursor ==
    /\ At({"seek"})
    /\ Advance

ReadField ==
    /\ At({"get_bytes", "get_bytes_at"})
    /\ Advance

ReadData ==
    /\ At({"get_data"})
    /\ Advance

ReadWaveSymbol ==
    /\ At({"wave_symbol"})
    /\ Advance

ReadFormatTag ==
    /\ At({"format_tag"})
    /\ Advance

\* parse returns.
Return ==
    /\ pc = "run"
    /\ ip = Len(ParseOf(cls)) + 1
    /\ pc' = "done"
    /\ UNCHANGED <<cls, self, byte_seq, chunk_start_pos, start_pos, ip, call, ret>>

Steps ==
    \/ Check
    \/ SetCursor
    \/ ReadField
    \/ ReadData
    \/ ReadWaveSymbol
    \/ ReadFormatTag
    \/ Return

Next == Call \/ Steps

\* One call of parse on a new object of each class.
Spec == Init /\ [][Next]_vars

NextAgain == CallAgain \/ Steps

\* Calls of parse, one after the other, on one object.
SpecAgain == Init /\ [][NextAgain]_vars

\* An object whose valid flag is either value, about to call get_bytes.
InitGetBytes ==
    /\ cls \in Classes
    /\ \E v \in BOOLEAN : self = [New(cls) EXCEPT !.valid = v]
    /\ byte_seq = <<>>
    /\ chunk_start_pos = 0
    /\ start_pos = 0
    /\ pc = "call"
    /\ ip = 0
    /\ call = NoCall
    /\ ret = NoRet

\* self.get_bytes(byte_data, start_pos, length, valid_check)
CallGetBytes ==
    /\ pc = "call"
    /\ \E b \in ArgBuffers, s \in 0..MaxArg, n \in 0..MaxArg, vc \in BOOLEAN :
          LET r == get_bytes(self, b, s, n, vc)
          IN  /\ call' = [self |-> self, byte_data |-> b, start_pos |-> s,
                          length |-> n, valid_check |-> vc]
              /\ self' = r.self
              /\ ret' = [bytes |-> r.bytes, pos |-> r.pos]
    /\ pc' = "returned"
    /\ UNCHANGED <<cls, byte_seq, chunk_start_pos, start_pos, ip>>

NextGetBytes == CallGetBytes

SpecGetBytes == InitGetBytes /\ [][NextGetBytes]_vars

\* ==================================================================
\* The claims
\* ==================================================================

\* parse has read the header of the chunk.
HeaderRead == pc \in {"run", "done"}

\* The four name bytes at the offset, when they are there.
NameBytes == Slice(byte_seq, chunk_start_pos, chunk_start_pos + 4)

\* The bytes that remain after the 8-byte header.
Available == Len(byte_seq) - (chunk_start_pos + 8)

\* The declared size: the u32 little-endian of bytes offset+4 .. offset+7.
SizeReadable == chunk_start_pos + 8 <= Len(byte_seq)

DeclaredSize ==
    byte_seq[chunk_start_pos + 5] + 256 * byte_seq[chunk_start_pos + 6]
    + 65536 * byte_seq[chunk_start_pos + 7] + 16777216 * byte_seq[chunk_start_pos + 8]

\* The name, the tag and the size each decoder kind expects (size -1: none).
Expected(c) ==
    CASE c = "RiffChunk" -> [name |-> RIFF, tag |-> "RIFF", size |-> 4, end |-> 12]
      [] c = "StandardPCMFormatChunk" ->
            [name |-> FMT, tag |-> "STANDARD_FMT", size |-> 16, end |-> 24]
      [] c = "NonPCMFormatChunk" ->
            [name |-> FMT, tag |-> "NON_STANDARD_FMT", size |-> 18, end |-> 26]
      [] c = "ExtensibleFormatChunk" ->
            [name |-> FMT, tag |-> "EXTENSIBLE_FMT", size |-> 40, end |-> 48]
      [] c = "DataChunk" -> [name |-> DATA, tag |-> "DATA", size |-> -1, end |-> 8]
      [] c = "FactChunk" -> [name |-> FACT, tag |-> "UNKNOWN", size |-> 4, end |-> 12]
      [] c = "BextChunk" -> [name |-> BEXT, tag |-> "BEXT", size |-> -1, end |-> 356]

\* Every structural check of the kind passes: the name, the classified tag,
\* the declared size of a fixed-size kind, and the form type of a container.
StructureOK ==
    /\ chunk_start_pos + 4 <= Len(byte_seq)
    /\ NameBytes = Expected(cls).name
    /\ self.chunk_type = Expected(cls).tag
    /\ Expected(cls).size # -1 =>
          SizeReadable /\ DeclaredSize = Expected(cls).size
    /\ cls = "RiffChunk" =>
          Slice(byte_seq, chunk_start_pos + 8, chunk_start_pos + 12) = WAVE

\* Every required field lies inside the buffer: the fixed fields end at
\* Expected(cls).end and the payload of a data chunk is declared_size long.
RequiredReadable ==
    /\ chunk_start_pos + Expected(cls).end <= Len(byte_seq)
    /\ cls = "DataChunk" => SizeReadable /\ DeclaredSize <= Available

\* C1 (as claimed): after a decode pass is_valid is true exactly when every
\* structural check passed and every required field was inside the buffer;
\* "RIFF" + u32(4) + "WAVE" decodes to a valid container with form type WAVE.
C1_ValidIffWellFormed ==
    (pc = "done" /\ cls # "BaseChunk") =>
        /\ self.valid <=> (StructureOK /\ RequiredReadable)
        /\ (cls = "RiffChunk" /\ byte_seq = RIFF \o LE32(4) \o WAVE
                /\ chunk_start_pos = 0) =>
              (self.valid /\ self.wave_symbol = WAVE)

\* C2 (as claimed): parse never raises, whatever the buffer holds.
C2_NeverRaises == pc # "raised"

\* C3 (as claimed): a name that is none of RIFF, "fmt ", data, bext is
\* classified UNKNOWN, so the classifier's result is always a ChunkType and
\* a key of CHUNK_TYPE_MAP.
C3_OtherNamesUnknown ==
    HeaderRead =>
        /\ self.chunk_type \in DOMAIN CHUNK_TYPE_MAP
        /\ (chunk_start_pos + 4 <= Len(byte_seq)
                /\ self.chunk_name \notin {RIFF, FMT, DATA, BEXT}) =>
              self.chunk_type = "UNKNOWN"

\* A data chunk named "data" that declares more bytes than remain.
TruncatedData ==
    /\ pc = "done"
    /\ cls = "DataChunk"
    /\ self.chunk_name = DATA
    /\ SizeReadable
    /\ Available < DeclaredSize

\* C4 (as claimed): a truncated data chunk is invalid and its payload is
\* exactly the bytes that remain.
C4_PayloadIsWhatRemains ==
    TruncatedData =>
        /\ ~self.valid
        /\ self.fields["data"]
             = Slice(byte_seq, chunk_start_pos + 8, Len(byte_seq))

\* C4 (amended): a truncated data chunk is invalid and its payload is empty.
C4_PayloadIsEmpty ==
    TruncatedData => (~self.valid /\ self.fields["data"] = <<>>)

\* declared_size = 10 with 8 bytes after the header.
C4_Witness ==
    TruncatedData /\ DeclaredSize = 10 /\ Available = 8

\* C5: with fewer than 4 bytes at the offset the header is read without an
\* error as tag UNKNOWN, name "" and size -1.
C5_ShortHeader ==
    (pc # "new" /\ chunk_start_pos + 4 > Len(byte_seq)) =>
        /\ HeaderRead
        /\ self.chunk_type = "UNKNOWN"
        /\ self.chunk_name = <<>>
        /\ self.chunk_size = -1

\* Some bytes at the offset, but fewer than 4.
C5_Witness ==
    /\ pc = "done"
    /\ chunk_start_pos < Len(byte_seq)
    /\ chunk_start_pos + 4 > Len(byte_seq)

\* C6: a chunk named "fmt " is STANDARD_FMT exactly when its declared size
\* is 16, NON_STANDARD_FMT when 18, EXTENSIBLE_FMT when 40, and UNKNOWN for
\* every other size and for a size field that cannot be read.
C6_FmtBySize ==
    (pc # "new" /\ chunk_start_pos + 4 <= Len(byte_seq) /\ NameBytes = FMT) =>
        /\ HeaderRead
        /\ self.chunk_type =
              IF ~SizeReadable THEN "UNKNOWN"
              ELSE IF DeclaredSize = 16 THEN "STANDARD_FMT"
              ELSE IF DeclaredSize = 18 THEN "NON_STANDARD_FMT"
              ELSE IF DeclaredSize = 40 THEN "EXTENSIBLE_FMT"
              ELSE "UNKNOWN"

\* A "fmt " chunk of size 40 that starts after the start of the buffer.
C6_Witness ==
    /\ HeaderRead
    /\ chunk_start_pos > 0
    /\ NameBytes = FMT
    /\ self.chunk_type = "EXTENSIBLE_FMT"

\* The fields of the bext chunk from version onward: name, offset from the
\* chunk start, length.
BextOptional ==
    {<<"_version", 356, 1>>, <<"umid", 357, 64>>, <<"_loudness_value", 421, 2>>,
     <<"_loudness_range", 423, 2>>, <<"_max_true_peak_level", 425, 2>>,
     <<"_max_momentary_loudness", 427, 2>>,
     <<"_max_short_term_loudness", 429, 2>>, <<"reserved", 431, 180>>}

\* b holds the 356 bytes from the chunk start.
HoldsRequired(b) == chunk_start_pos + 356 <= Len(b)

\* C7: in the bext decoder the fields from version onward are optional: two
\* buffers that agree on the 356 bytes from the chunk start decode to the
\* same is_valid, and a field from version onward that is not wholly in
\* the buffer reads as empty bytes and as the integer 0.
C7_TrailingFieldsOptional ==
    (pc = "done" /\ cls = "BextChunk") =>
        /\ HoldsRequired(byte_seq) =>
              \A b \in Buffers :
                  (/\ HoldsRequired(b)
                   /\ Slice(b, chunk_start_pos, chunk_start_pos + 356)
                        = Slice(byte_seq, chunk_start_pos, chunk_start_pos + 356))
                  => /\ ~parse(cls, New(cls), b, chunk_start_pos).raised
                     /\ parse(cls, New(cls), b, chunk_start_pos).self.valid
                          = self.valid
        /\ \A f \in BextOptional :
              chunk_start_pos + f[2] + f[3] > Len(byte_seq) =>
                  /\ self.fields[f[1]] = <<>>
                  /\ int_property(self, f[1], f[3]) = 0

\* A bext chunk cut inside umid: the required fields and version are there,
\* the fields after version are not.
C7_Witness ==
    /\ pc = "done"
    /\ cls = "BextChunk"
    /\ self.chunk_name = BEXT
    /\ HoldsRequired(byte_seq)
    /\ self.fields["_version"] # <<>>
    /\ chunk_start_pos + 421 > Len(byte_seq)
    /\ self.fields["umid"] = <<>>

\* C8: validity is monotone: a step of parse, or a new call of parse on the
\* object, that starts with is_valid false ends with is_valid false.
C8_ValidityMonotone == [][~self.valid => ~self'.valid]_vars

\* A container whose name, tag, size and form type all pass and whose reads
\* all succeed, with is_valid still false.
C8_Witness ==
    /\ pc = "done"
    /\ cls = "RiffChunk"
    /\ self.chunk_name = RIFF
    /\ self.chunk_type = "RIFF"
    /\ self.chunk_size = 4
    /\ self.wave_symbol = WAVE
    /\ ~self.valid

\* The span of a direct get_bytes call leaves the buffer.
OutOfBounds == call.start_pos + call.length > Len(call.byte_data)

\* C9: get_bytes clears is_valid when the span leaves the buffer and
\* valid_check is true, and otherwise leaves it as it was; out of bounds it
\* returns an empty span; it changes no other attribute of the object.
C9_GetBytesFrame ==
    pc = "returned" =>
        /\ self.valid =
              IF OutOfBounds /\ call.valid_check THEN FALSE ELSE call.self.valid
        /\ OutOfBounds => ret.bytes = <<>>
        /\ [self EXCEPT !.valid = call.self.valid] = call.self

\* An optional read out of bounds on a valid object: it stays valid.
C9_Witness ==
    /\ pc = "returned"
    /\ OutOfBounds
    /\ ~call.valid_check
    /\ call.self.valid
    /\ self.valid
    /\ ret.bytes = <<>>

\* The stored fields of the format family and of the bext chunk, in the
\* order they are read: name, offset from the chunk start, length.
BaseLayout ==
    <<<<"_channels", 10, 2>>, <<"_sample_rate", 12, 4>>, <<"_byte_rate", 16, 4>>,
      <<"_block_align", 20, 2>>, <<"_bits_per_sample", 22, 2>>>>

Layout(c) ==
    CASE c = "StandardPCMFormatChunk" -> BaseLayout
      [] c = "NonPCMFormatChunk" -> BaseLayout \o <<<<"_extension_size", 24, 2>>>>
      [] c = "ExtensibleFormatChunk" ->
            BaseLayout \o <<<<"_extension_size", 24, 2>>,
                            <<"_valid_bits_per_sample", 26, 2>>,
                            <<"_channel_mask", 28, 4>>, <<"sub_format", 32, 16>>>>
      [] c = "BextChunk" ->
            <<<<"_description", 8, 256>>, <<"_originator", 264, 32>>,
              <<"_originator_reference", 296, 32>>, <<"_originator_date", 328, 10>>,
              <<"_originator_time", 338, 8>>, <<"_align", 346, 2>>,
              <<"_time_reference_low", 348, 4>>, <<"_time_reference_high", 352, 4>>,
              <<"_version", 356, 1>>, <<"umid", 357, 64>>,
              <<"_loudness_value", 421, 2>>, <<"_loudness_range", 423, 2>>,
              <<"_max_true_peak_level", 425, 2>>,
              <<"_max_momentary_loudness", 427, 2>>,
              <<"_max_short_term_loudness", 429, 2>>, <<"reserved", 431, 180>>>>
      [] OTHER -> <<>>

\* Where the cursor of a pass ends: after the last field read through it.
CursorEnd(c) ==
    CASE c = "ExtensibleFormatChunk" -> 48
      [] c = "BextChunk" -> 611
      [] OTHER -> 24

\* C10: the fields are read at their nominal offsets: the cursor advances
\* by the length of every read, failed or not, so after a pass each stored
\* field is buffer[o : o+n] when that span is in the buffer and empty
\* otherwise, whatever failed before it, and the fields that were read form
\* a prefix of the field order.
C10_NominalOffsets ==
    (pc = "done" /\ Layout(cls) # <<>>) =>
        LET lay == Layout(cls)
        IN  /\ start_pos = chunk_start_pos + CursorEnd(cls)
            /\ \A i \in DOMAIN lay :
                  self.fields[lay[i][1]] =
                      IF chunk_start_pos + lay[i][2] + lay[i][3] <= Len(byte_seq)
                      THEN SubSeq(byte_seq, chunk_start_pos + lay[i][2] + 1,
                                  chunk_start_pos + lay[i][2] + lay[i][3])
                      ELSE <<>>
            /\ \A i, j \in DOMAIN lay :
                  (i < j /\ self.fields[lay[i][1]] = <<>>) =>
                      self.fields[lay[j][1]] = <<>>

\* An extensible format chunk with a wrong name, cut inside its channel
\* mask: the fields before it are read, it and sub_format are empty.
C10_Witness ==
    /\ pc = "done"
    /\ cls = "ExtensibleFormatChunk"
    /\ self.chunk_name # FMT
    /\ self.fields["_valid_bits_per_sample"] # <<>>
    /\ chunk_start_pos + 28 < Len(byte_seq)
    /\ self.fields["_channel_mask"] = <<>>
    /\ self.fields["sub_format"] = <<>>

====
